---- MODULE Spec2Model ----
(***************************************************************************)
(* Technical Signal Engine of trade5: price validator, risk calculator,    *)
(* protection-rule modules and the generate_signal cascade.                *)
(*                                                                         *)
(* Numbers.  The Python code works on floats; the model works on exact     *)
(* decimals held as integers.                                              *)
(*   - prices, ATR and levels: integer multiples of 1/1000 cent, so that   *)
(*     x*0.99, x*1.02, x*0.9, x*0.998 and atr*1.5 are exact on the         *)
(*     half-cent grid the inputs come from (Cent units = 0.01);            *)
(*   - ratios given to cap_risk_reward_ratio: a fraction n/d, with the     *)
(*     cap max_rr in thousandths;                                          *)
(*   - RSI, StochRSI-K, volume ratio, R/R, debt/equity, price change and   *)
(*     score in generate_signal: hundredths.                               *)
(* round(x, 2) is round-half-even, as Python's round on the exact value.   *)
(* Where the code rounds or compares a float it has computed itself, the   *)
(* float differs from the exact decimal by a representation error whose    *)
(* sign (eps) the model leaves open: it decides decimal ties and exact     *)
(* equalities either way.                                                  *)
(***************************************************************************)
EXTENDS Integers, Sequences, FiniteSets, TLC

VARIABLES pc, op, args, result, overbought_protector, high_risk_optimizer,
          paper_trades

\* the module-level instances every analysis shares
instances == <<overbought_protector, high_risk_optimizer>>

vars == <<pc, op, args, result, overbought_protector, high_risk_optimizer,
          paper_trades>>

\* ------------------------------------------------------------------ bounds
\* penny range of the price grid, in cents: 0 .. MaxCents
MaxCents == 5
\* ATR grid, in cents: 0 .. MaxAtrCents
MaxAtrCents == 3
\* largest days-to-earnings handed to generate_signal
MaxEarningsDays == 8
\* longest bar series handed to calculate_donchian_channel
MaxBars == 3

\* ----------------------------------------------------------------- numbers
\* units per cent (0.01): the 2-decimal grid of round(x, 2)
Cent == 1000
\* default min_price = 0.01
MinPrice == 1 * Cent
\* default max_rr = 10.0, in thousandths
DefaultMaxRR == 10 * 1000

Max(a, b) == IF a >= b THEN a ELSE b
Min(a, b) == IF a <= b THEN a ELSE b
Abs(a) == IF a < 0 THEN 0 - a ELSE a

\* signs of the representation error of a computed float
FloatErrors == {0 - 1, 1}

\* round of the fraction n/d (n >= 0, d > 0) to an integer: half-even when
\* the value is exact (eps = 0), a tie falling with the error otherwise
RoundDiv(n, d, eps) ==
    LET q == n \div d
        r == n % d
    IN  IF 2 * r > d THEN q + 1
        ELSE IF 2 * r < d THEN q
        ELSE IF eps > 0 THEN q + 1
        ELSE IF eps < 0 THEN q
        ELSE IF q % 2 = 0 THEN q ELSE q + 1

\* round(x, 2) of a non-negative price x, result in the same units
Round2(x, eps) == RoundDiv(x, Cent, eps) * Cent

\* ------------------------------------------------------------ float values
\* what can be handed to validate_price: a number, None, NaN, +inf, or a
\* string that float() cannot parse
Num(x) == [k |-> "num", v |-> x]
NoneVal == [k |-> "none", v |-> 0]
NaN == [k |-> "nan", v |-> 0]
PosInf == [k |-> "inf", v |-> 0]
NonNumeric == [k |-> "str", v |-> 0]
\* outcome of a call that raised
Raised == [k |-> "raise", v |-> 0]

\* -------------------------------------------------------- price validator
validate_price(price, min_price) ==
    IF price.k \in {"nan", "none"} THEN Num(min_price)
    ELSE IF price.k = "str" THEN Raised
    ELSE IF price.k = "inf" THEN PosInf
    ELSE Num(Max(min_price, price.v))

\* a plausible slip: the replacement is taken off the stop loss, not the price
validate_stop_loss_offsl(stop_loss, current_price, atr) ==
    LET s1 == validate_price(Num(stop_loss), MinPrice).v
        s2 == IF s1 * 100 >= current_price * 99
              THEN s1 - (atr * 3) \div 2
              ELSE s1
    IN  validate_price(Num(s2), MinPrice).v

validate_stop_loss(stop_loss, current_price, atr) ==
    LET s1 == validate_price(Num(stop_loss), MinPrice).v
        s2 == IF s1 * 100 >= current_price * 99
              THEN current_price - (atr * 3) \div 2
              ELSE s1
    IN  validate_price(Num(s2), MinPrice).v

validate_take_profit(take_profit, current_price, atr) ==
    LET t1 == validate_price(Num(take_profit), MinPrice).v
    IN  IF t1 * 100 <= current_price * 102
        THEN current_price + atr * 2
        ELSE t1

\* a plausible slip: the uncapped branch is returned also above the cap
cap_risk_reward_ratio_nocap(n, d, max_rr, eps) ==
    [rr_ratio |-> RoundDiv(n * 100, d, eps) * 10,
     actual_rr |-> RoundDiv(n * 100, d, eps) * 10,
     capped |-> FALSE]

\* rr_ratio = n/d with error sign eps; max_rr, rr_ratio and actual_rr of the
\* result in thousandths
cap_risk_reward_ratio(n, d, max_rr, eps) ==
    IF 2 * n * 1000 + eps > 2 * max_rr * d
    THEN [rr_ratio |-> max_rr,
          actual_rr |-> RoundDiv(n * 100, d, eps) * 10,
          capped |-> TRUE]
    ELSE [rr_ratio |-> RoundDiv(n * 100, d, eps) * 10,
          actual_rr |-> RoundDiv(n * 100, d, eps) * 10,
          capped |-> FALSE]

\* df of detect_massive_drop: n bars, close holding the last min(n, 2)
\* closes in cents, volume the last volume and volume_mean its 20-bar rolling mean
\* (both read only when n >= 20); threshold in percent.  drop_percent is a
\* float the code computes: eps is the sign of its error
detect_massive_drop(df, threshold, eps) ==
    LET last_close == df.close[1]
        current_close == df.close[2]
        \* drop_percent < -threshold; x / 0 is +inf or nan, never below
        below == /\ last_close > 0
                 /\ 2 * (current_close - last_close) * 100 + eps
                      < 0 - 2 * threshold * last_close
        \* volume_ratio > 1.5, the ratio being 1.0 for fewer than 20 bars
        volume_spike == IF df.n < 20 THEN FALSE
                        ELSE IF df.volume_mean = 0 THEN df.volume > 0
                        ELSE 2 * df.volume > 3 * df.volume_mean
    IN  IF df.n < 2 \/ ~below
        THEN [k |-> "none", drop_percent |-> 0, volume_spike |-> FALSE]
        ELSE [k |-> "alert",
              \* round(drop_percent, 2), in hundredths
              drop_percent |->
                 RoundDiv((current_close - last_close) * 100 * 100,
                          last_close, eps),
              volume_spike |-> volume_spike]

\* ------------------------------------------------------------ input grids
\* prices on the cent and half-cent grid: the penny range and the range
\* around 1.00 where the 1%, 2% and 10% thresholds fall between grid points
PriceGrid ==
    {c * Cent : c \in 0..MaxCents}
    \cup {(2 * c + 1) * (Cent \div 2) : c \in 0..1}
    \cup {c * Cent : c \in {89, 90, 98, 99, 100, 101, 102, 103, 110}}
\* prices of an indicator snapshot: rounded to 2 decimals
CentGrid == {p \in PriceGrid : p % Cent = 0}
AtrGrid == {a * Cent : a \in 0..MaxAtrCents} \cup {10 * Cent}

PriceInputs ==
    {NoneVal, NaN, PosInf, NonNumeric}
    \cup {Num(p) : p \in PriceGrid \cup {0 - Cent}}
MinPriceInputs == {MinPrice, 5 * Cent}

\* ratios in thousandths and caps in thousandths
RRInputs == {0, 500, 1000, 9125, 9375, 9994, 9996, 9998, 10000, 10001,
             10004, 25000, 25123}
MaxRRInputs == {DefaultMaxRR, 9999, 30000}

NoArgs == [none |-> TRUE]

\* db.paper_trades before any trade is created: documents by their id
NoTrades == <<>>

\* OverboughtProtector(): the fields __init__ sets, in hundredths
OverboughtProtector ==
    [rsi_threshold |-> 70 * 100, stoch_rsi_threshold |-> 90 * 100,
     volume_ratio_min |-> 50, min_rr_ratio |-> 100,
     earnings_protect_days |-> 5]

\* HighRiskOptimizer(): the fields __init__ sets
HighRiskOptimizer ==
    [volume_threshold |-> 80, debt_to_equity_max |-> 200 * 100,
     earnings_warning_days |-> 7]

\* the instances as the modules create them on import
InitInstances ==
    /\ overbought_protector = OverboughtProtector
    /\ high_risk_optimizer = HighRiskOptimizer

Init ==
    /\ pc = "idle"
    /\ op = "none"
    /\ args = NoArgs
    /\ result = NoArgs
    /\ InitInstances
    /\ paper_trades = NoTrades

\* the caller takes the result; the next call starts from scratch
Return ==
    /\ pc = "done"
    /\ pc' = "idle"
    /\ op' = "none"
    /\ args' = NoArgs
    /\ result' = NoArgs
    /\ UNCHANGED <<instances, paper_trades>>

Call_validate_price ==
    /\ pc = "idle"
    /\ \E price \in PriceInputs, min_price \in MinPriceInputs :
         /\ args' = [price |-> price, min_price |-> min_price]
         /\ result' = validate_price(price, min_price)
    /\ op' = "validate_price"
    /\ pc' = "done"
    /\ UNCHANGED <<instances, paper_trades>>

Call_validate_stop_loss ==
    /\ pc = "idle"
    /\ \E sl \in PriceGrid \cup {0 - Cent}, cur \in PriceGrid, atr \in AtrGrid :
         /\ args' = [stop_loss |-> sl, current_price |-> cur, atr |-> atr,
                     pass |-> 1, first |-> sl]
         /\ result' = validate_stop_loss(sl, cur, atr)
    /\ op' = "validate_stop_loss"
    /\ pc' = "done"
    /\ UNCHANGED <<instances, paper_trades>>

\* the caller validates the stop loss it got back a second time
Revalidate_stop_loss ==
    /\ pc = "done"
    /\ op = "validate_stop_loss"
    /\ args.pass = 1
    /\ args' = [args EXCEPT !.stop_loss = result, !.pass = 2]
    /\ result' = validate_stop_loss(result, args.current_price, args.atr)
    /\ UNCHANGED <<pc, op>>
    /\ UNCHANGED <<instances, paper_trades>>

Call_validate_take_profit ==
    /\ pc = "idle"
    /\ \E tp \in PriceGrid \cup {0 - Cent}, cur \in PriceGrid, atr \in AtrGrid :
         /\ args' = [take_profit |-> tp, current_price |-> cur, atr |-> atr]
         /\ result' = validate_take_profit(tp, cur, atr)
    /\ op' = "validate_take_profit"
    /\ pc' = "done"
    /\ UNCHANGED <<instances, paper_trades>>

Call_cap_risk_reward_ratio ==
    /\ pc = "idle"
    /\ \E rr \in RRInputs, max_rr \in MaxRRInputs :
         /\ args' = [rr_ratio |-> rr, max_rr |-> max_rr]
         /\ result' = cap_risk_reward_ratio(rr, 1000, max_rr, 0)
    /\ op' = "cap_risk_reward_ratio"
    /\ pc' = "done"
    /\ UNCHANGED <<instances, paper_trades>>

\* bar counts on both sides of the 2 and 20 bar marks
BarCounts == {0, 1, 2, 19, 20}
\* closes around a decline of 8% and of 7% from 100.00, and from 1.25
CloseInputs == {0, 115, 125, 9000, 9199, 9200, 9201, 9300, 10000, 11000}
ThresholdInputs == {7, 8}
VolumeInputs == {<<0, 0>>, <<150, 100>>, <<151, 100>>, <<5, 0>>}

\* the bar series with n bars
DataFrames(n) ==
    [n : {n},
     close : IF n = 0 THEN {<<>>}
             ELSE IF n = 1 THEN {<<c>> : c \in CloseInputs}
             ELSE CloseInputs \X CloseInputs,
     volume : IF n < 20 THEN {0} ELSE {v[1] : v \in VolumeInputs},
     volume_mean : IF n < 20 THEN {0} ELSE {v[2] : v \in VolumeInputs}]

Call_detect_massive_drop ==
    /\ pc = "idle"
    /\ \E n \in BarCounts, threshold \in ThresholdInputs, eps \in FloatErrors :
         \E df \in DataFrames(n) :
            /\ args' = [df |-> df, threshold |-> threshold]
            /\ result' = detect_massive_drop(df, threshold, eps)
    /\ op' = "detect_massive_drop"
    /\ pc' = "done"
    /\ UNCHANGED <<instances, paper_trades>>

\* --------------------------------------------------------- risk calculator
\* a profile, or raised = TRUE when the call ends in ZeroDivisionError
\* (sl_percent divides by current_price, position sizing by sl_percent);
\* fp: the error signs of the computed stop loss, take profit and ratio
calculate_risk_reward(current_price, atr, support, resistance, fp) ==
    LET sl_atr_based == current_price - (atr * 3) \div 2
        sl_support_based == support - atr \div 2
        sl_valid == validate_stop_loss(Max(sl_atr_based, sl_support_based),
                                       current_price, atr)
        \* sl_percent > 10
        sl_too_wide == (current_price - sl_valid) * 100 > 10 * current_price
        stop_loss == IF sl_too_wide THEN (current_price * 9) \div 10
                     ELSE sl_valid
        \* sl_percent = 0
        sl_percent_zero == ~sl_too_wide /\ sl_valid = current_price
        tp_raw == IF current_price * 100 >= resistance * 98
                  THEN current_price + atr * 3
                  ELSE resistance - (resistance * 2) \div 1000
        take_profit == validate_take_profit(tp_raw, current_price, atr)
        risk0 == current_price - stop_loss
        reward == take_profit - current_price
        risk == IF risk0 <= 0 THEN (atr * 3) \div 2 ELSE risk0
        rr_display_data ==
            IF risk > 0
            THEN cap_risk_reward_ratio(reward, risk, DefaultMaxRR, fp.rr)
            ELSE cap_risk_reward_ratio(0, 1, DefaultMaxRR, 0)
    IN  IF current_price = 0 \/ sl_percent_zero
        THEN [raised |-> TRUE, entry_price |-> 0, stop_loss |-> 0,
              take_profit |-> 0, risk_reward_ratio |-> 0,
              actual_rr_ratio |-> 0, rr_capped |-> FALSE]
        ELSE [raised |-> FALSE,
              entry_price |-> Round2(current_price, 0),
              stop_loss |-> Round2(stop_loss, fp.sl),
              take_profit |-> Round2(take_profit, fp.tp),
              risk_reward_ratio |-> rr_display_data.rr_ratio,
              actual_rr_ratio |-> rr_display_data.actual_rr,
              rr_capped |-> rr_display_data.capped]

Call_calculate_risk_reward ==
    /\ pc = "idle"
    /\ \E cur \in CentGrid, atr \in AtrGrid, sup \in CentGrid, res \in CentGrid :
         \* classic pivots of a bar window: S1 <= close <= R1
         /\ sup <= cur /\ cur <= res
         /\ args' = [current_price |-> cur, atr |-> atr,
                     support |-> sup, resistance |-> res]
         /\ \E fp \in [sl : FloatErrors, tp : FloatErrors, rr : FloatErrors] :
              result' = calculate_risk_reward(cur, atr, sup, res, fp)
    /\ op' = "calculate_risk_reward"
    /\ pc' = "done"
    /\ UNCHANGED <<instances, paper_trades>>

\* ------------------------------------------------- overbought protector
\* self.rsi_threshold, ... of the shared instance
rsi_threshold == overbought_protector.rsi_threshold
stoch_rsi_threshold == overbought_protector.stoch_rsi_threshold
volume_ratio_min == overbought_protector.volume_ratio_min
min_rr_ratio == overbought_protector.min_rr_ratio

\* a plausible slip: RSI is compared with >= instead of >
check_sell_trigger_ge(rsi, stoch_rsi_k, volume_ratio) ==
    [some |-> /\ rsi >= rsi_threshold
              /\ stoch_rsi_k > stoch_rsi_threshold
              /\ volume_ratio < volume_ratio_min,
     type |-> "SELL_TRIGGER",
     forced_signal |-> "SELL", forced_confidence |-> 85]

\* None, or the trigger with forced_signal SELL and forced_confidence 85
check_sell_trigger(rsi, stoch_rsi_k, volume_ratio) ==
    [some |-> /\ rsi > rsi_threshold
              /\ stoch_rsi_k > stoch_rsi_threshold
              /\ volume_ratio < volume_ratio_min,
     type |-> "SELL_TRIGGER",
     forced_signal |-> "SELL", forced_confidence |-> 85]

\* a plausible slip: a ratio of exactly 1.0 is blocked too
check_entry_block_le(risk_reward_ratio) ==
    [some |-> risk_reward_ratio <= min_rr_ratio, type |-> "ENTRY_BLOCK"]

check_entry_block(risk_reward_ratio) ==
    [some |-> risk_reward_ratio < min_rr_ratio, type |-> "ENTRY_BLOCK"]

\* ---------------------------------------------------- high-risk optimizer
\* self.volume_threshold, ... of the shared instance
volume_threshold == high_risk_optimizer.volume_threshold
debt_to_equity_max == high_risk_optimizer.debt_to_equity_max
earnings_warning_days == high_risk_optimizer.earnings_warning_days

check_volume_divergence(volume_ratio, price_change_percent) ==
    [some |-> volume_ratio < volume_threshold /\ price_change_percent > 0,
     type |-> "VOLUME_DIVERGENCE", confidence_penalty |-> 30 * 100]

\* a plausible slip: a free cash flow of exactly -1B already liquidates
check_financial_health_block_le(fundamentals) ==
    LET fcf == fundamentals.free_cash_flow
        dte == fundamentals.debt_to_equity
    IN  IF ~fundamentals.some \/ fundamentals.non_numeric # {}
        THEN [some |-> FALSE, type |-> "FINANCIAL_HEALTH_BLOCK",
              forced_signal |-> "NEUTRAL"]
        ELSE [some |-> fcf < 0 /\ dte > debt_to_equity_max,
              type |-> "FINANCIAL_HEALTH_BLOCK",
              forced_signal |-> IF fcf <= 0 - 1000000000 THEN "LIQUIDATE"
                                ELSE "NEUTRAL"]

\* fundamentals: some = FALSE for None or {}; a field that is missing, None
\* or 0 is 0 (the code tests both with "if x"); non_numeric names the fields
\* holding a value float() rejects, which ends the call in the except branch
check_financial_health_block(fundamentals) ==
    LET fcf == fundamentals.free_cash_flow
        dte == fundamentals.debt_to_equity
    IN  IF ~fundamentals.some \/ fundamentals.non_numeric # {}
        THEN [some |-> FALSE, type |-> "FINANCIAL_HEALTH_BLOCK",
              forced_signal |-> "NEUTRAL"]
        ELSE [some |-> fcf < 0 /\ dte > debt_to_equity_max,
              type |-> "FINANCIAL_HEALTH_BLOCK",
              forced_signal |-> IF fcf < 0 - 1000000000 THEN "LIQUIDATE"
                                ELSE "NEUTRAL"]

\* a plausible slip: the warning window is compared with < instead of <=
check_earnings_proximity_lt(days_until_earnings) ==
    [some |-> days_until_earnings.some
              /\ days_until_earnings.v < earnings_warning_days,
     type |-> "EARNINGS_WARNING", forced_signal_override |-> TRUE,
     forced_signal |-> "WAIT", forced_confidence |-> 20]

check_earnings_proximity(days_until_earnings) ==
    [some |-> days_until_earnings.some
              /\ days_until_earnings.v <= earnings_warning_days,
     type |-> "EARNINGS_WARNING", forced_signal_override |-> TRUE,
     forced_signal |-> "WAIT", forced_confidence |-> 20]

\* ------------------------------------------------------- generate_signal
IfSeq(c, x) == IF c THEN <<x>> ELSE <<>>

\* fundamentals and fundamentals.get('debt_to_equity')
HasDte(in) == in.fundamentals.some /\ in.fundamentals.debt_to_equity # 0

\* price_change_percent < bound (in hundredths), the float passed being
\* price_change_percent / 100 moved by price_change_ulps units in the last place
PriceChangeBelow(in, bound) ==
    \/ in.price_change_percent < bound
    \/ in.price_change_percent = bound /\ in.price_change_ulps < 0

\* a plausible slip: a change of exactly -8% is penalised too
DropPenalty_le(in) ==
    IF in.price_change_percent <= 0 - 800
    THEN Min(Abs(in.price_change_percent) * 5, 60 * 100)
    ELSE 0

\* CHECK #-1: min(abs(price_change_percent) * 5, 60), in hundredths
DropPenalty(in) ==
    IF PriceChangeBelow(in, 0 - 800)
    THEN Min(Abs(in.price_change_percent) * 5, 60 * 100)
    ELSE 0

\* a plausible slip: the percentage form is recognised with >= instead of >
DteRatio_ge(in) ==
    IF in.fundamentals.debt_to_equity >= 100 * 100
    THEN in.fundamentals.debt_to_equity
    ELSE in.fundamentals.debt_to_equity * 100

\* dte_ratio * 10000: dte / 100 when dte > 100, dte otherwise
DteRatio(in) ==
    IF in.fundamentals.debt_to_equity > 100 * 100
    THEN in.fundamentals.debt_to_equity
    ELSE in.fundamentals.debt_to_equity * 100

\* CHECK #-0.5
DtePenalty(in) ==
    IF ~HasDte(in) THEN 0
    ELSE IF DteRatio(in) > 10 * 10000 THEN 30 * 100
    ELSE IF DteRatio(in) > 3 * 10000 THEN 20 * 100
    ELSE 0

\* dte_check > 300
DteExtreme(in) == HasDte(in) /\ in.fundamentals.debt_to_equity > 300 * 100

\* score when the cascade starts (CHECK #0)
ScoreBeforeCascade(in) ==
    0 - DropPenalty(in) - DtePenalty(in)
      - (IF DteExtreme(in) THEN 30 * 100 ELSE 0)

\* price_change_percent is overwritten with 0 before the divergence check
VolumeDivergence(in) == check_volume_divergence(in.volume_ratio, 0)

\* a plausible slip: the second extreme debt/equity check deducts nothing
ScoreBeforeScoring_once(in) ==
    ScoreBeforeCascade(in)
      - (IF VolumeDivergence(in).some
         THEN VolumeDivergence(in).confidence_penalty ELSE 0)

\* score when the scoring pass starts
ScoreBeforeScoring(in) ==
    ScoreBeforeCascade(in)
      - (IF VolumeDivergence(in).some
         THEN VolumeDivergence(in).confidence_penalty ELSE 0)
      - (IF DteExtreme(in) THEN 50 * 100 ELSE 0)

\* a plausible slip: a MACD cross that is not bullish costs nothing
ScoringTerms_macd(in) ==
      (IF in.adx_regime = "RANGING" THEN 0 - 15 * 100 ELSE 0)
    + (IF in.trend_direction = "BULLISH" THEN 20 * 100 ELSE 0 - 20 * 100)
    + (IF in.rsi_signal = "supravandut" THEN 15 * 100
       ELSE IF in.rsi_signal = "supracumparat" THEN 0 - 15 * 100 ELSE 0)
    + (IF in.stoch_rsi_k > 85 * 100 THEN 0 - 30 * 100
       ELSE IF in.stoch_rsi_signal = "supravandut" THEN 15 * 100 ELSE 0)
    + (IF in.macd_cross = "bullish" THEN 10 * 100 ELSE 0)
    + (IF in.vix_high_volatility THEN 0 - 15 * 100 ELSE 0)

\* SCORING LOGIC: the terms added to score
ScoringTerms(in) ==
      (IF in.adx_regime = "RANGING" THEN 0 - 15 * 100 ELSE 0)
    + (IF in.trend_direction = "BULLISH" THEN 20 * 100 ELSE 0 - 20 * 100)
    + (IF in.rsi_signal = "supravandut" THEN 15 * 100
       ELSE IF in.rsi_signal = "supracumparat" THEN 0 - 15 * 100 ELSE 0)
    + (IF in.stoch_rsi_k > 85 * 100 THEN 0 - 30 * 100
       ELSE IF in.stoch_rsi_signal = "supravandut" THEN 15 * 100 ELSE 0)
    + (IF in.macd_cross = "bullish" THEN 10 * 100 ELSE 0 - 10 * 100)
    + (IF in.vix_high_volatility THEN 0 - 15 * 100 ELSE 0)

\* a plausible slip: the clamp is left out
Clamp_none(x, lo, hi) == x

\* max(lo, min(hi, x))
Clamp(x, lo, hi) == Max(lo, Min(hi, x))

\* warnings collected before the cascade
WarningsBeforeCascade(in) ==
    IfSeq(DropPenalty(in) > 0, "DAILY_DROP")
    \o IfSeq(DtePenalty(in) = 30 * 100, "DTE_EXTREME_RISK")
    \o IfSeq(DtePenalty(in) = 20 * 100, "DTE_HIGH")
    \o IfSeq(DteExtreme(in), "DTE_CRITICAL")

\* every amount added to score, in the order the code adds them
ScoreSteps(in) ==
    <<0 - DropPenalty(in),
      0 - DtePenalty(in),
      IF DteExtreme(in) THEN 0 - 30 * 100 ELSE 0,
      IF VolumeDivergence(in).some
      THEN 0 - VolumeDivergence(in).confidence_penalty ELSE 0,
      IF DteExtreme(in) THEN 0 - 50 * 100 ELSE 0,
      IF in.adx_regime = "RANGING" THEN 0 - 15 * 100 ELSE 0,
      IF in.trend_direction = "BULLISH" THEN 20 * 100 ELSE 0 - 20 * 100,
      IF in.rsi_signal = "supravandut" THEN 15 * 100
      ELSE IF in.rsi_signal = "supracumparat" THEN 0 - 15 * 100 ELSE 0,
      IF in.stoch_rsi_k > 85 * 100 THEN 0 - 30 * 100
      ELSE IF in.stoch_rsi_signal = "supravandut" THEN 15 * 100 ELSE 0,
      IF in.macd_cross = "bullish" THEN 10 * 100 ELSE 0 - 10 * 100,
      IF in.vix_high_volatility THEN 0 - 15 * 100 ELSE 0>>

\* score after the first n additions
RECURSIVE RunningScore(_, _)
RunningScore(in, n) ==
    IF n = 0 THEN 0 ELSE RunningScore(in, n - 1) + ScoreSteps(in)[n]

\* abs(-8.000000000000002) * 5 is 40.00000000000001: score carries the excess
\* of one unit in the last place of 40 until a sum of magnitude 64 or more is
\* rounded (to even, which drops it)
ExcessAbsorbed(in) ==
    \/ \E n \in DOMAIN ScoreSteps(in) : RunningScore(in, n) <= 0 - 64 * 100
    \/ 50 * 100 + RunningScore(in, Len(ScoreSteps(in))) > 64 * 100

\* what the excess takes from 50 + score: less than any amount of the grid,
\* which are all multiples of 0.05
Excess(in) ==
    IF in.price_change_percent = 0 - 800 /\ in.price_change_ulps < 0
       /\ ~ExcessAbsorbed(in)
    THEN 1 ELSE 0

\* the scoring pass and the final mapping
ScoringPass(in) ==
    LET score == ScoreBeforeScoring(in) + ScoringTerms(in) - Excess(in)
        confidence == Clamp(50 * 100 + score, 0, 100 * 100)
        signal == IF confidence >= 70 * 100 /\ in.adx_regime = "TRENDING"
                  THEN "BUY"
                  ELSE IF confidence <= 30 * 100 THEN "SELL"
                  ELSE IF confidence >= 50 * 100 THEN "HOLD"
                  ELSE "WAIT"
    IN  [signal |-> signal,
         \* int(confidence)
         confidence |-> confidence \div 100,
         override_reason |-> "none",
         reasons |->
            <<IF in.trend_direction = "BULLISH" THEN "TREND_BULLISH"
              ELSE "TREND_BEARISH">>
            \o IfSeq(in.rsi_signal = "supravandut", "RSI_OVERSOLD")
            \o IfSeq(in.stoch_rsi_k <= 85 * 100
                     /\ in.stoch_rsi_signal = "supravandut", "STOCH_OVERSOLD")
            \o IfSeq(in.macd_cross = "bullish", "MACD_BULLISH"),
         warnings |->
            WarningsBeforeCascade(in)
            \o IfSeq(VolumeDivergence(in).some, "VOLUME_DIVERGENCE")
            \o IfSeq(DteExtreme(in), "DTE_CRITICAL")
            \o IfSeq(in.adx_regime = "RANGING", "RANGING")
            \o IfSeq(in.rsi_signal = "supracumparat", "RSI_OVERBOUGHT")
            \o IfSeq(in.stoch_rsi_k > 85 * 100, "STOCH_EXTREME")
            \o IfSeq(in.vix_high_volatility, "VIX_HIGH")
            \o IfSeq(in.price_current * 100 > in.resistance * 98,
                     "AT_RESISTANCE")
            \o IfSeq(in.price_current * 100 < in.support * 102, "AT_SUPPORT"),
         advanced_alerts |->
            IfSeq(check_entry_block(in.risk_reward_ratio).some, "ENTRY_BLOCK")
            \o IfSeq(VolumeDivergence(in).some, "VOLUME_DIVERGENCE")]

Override(signal, confidence, why, reason, warning, alerts) ==
    [signal |-> signal, confidence |-> confidence, override_reason |-> why,
     reasons |-> reason, warnings |-> warning, advanced_alerts |-> alerts]

\* critical_blocks when the standard checks are reached
CriticalBlocks(in) ==
    IfSeq(DropPenalty(in) > 0, "DAILY_DROP")
    \o IfSeq(DtePenalty(in) = 30 * 100, "DTE_CRITICAL_BLOCK")
    \o IfSeq(DteExtreme(in), "DTE_EXTREME")
    \o IfSeq(check_entry_block(in.risk_reward_ratio).some, "ENTRY_BLOCK")
    \o IfSeq(DteExtreme(in), "DTE_EXTREME")

\* the condition under which each early return of the cascade is taken
Fires(branch, in) ==
    CASE branch = "MASSIVE_DROP" ->
            in.massive_drop_detected.k = "alert"
      [] branch = "SELL_TRIGGER" ->
            check_sell_trigger(in.rsi_value, in.stoch_rsi_k,
                               in.volume_ratio).some
      [] branch = "FINANCIAL_HEALTH_BLOCK" ->
            check_financial_health_block(in.fundamentals).some
      [] branch = "EARNINGS_PROXIMITY" ->
            /\ check_earnings_proximity(in.earnings_days).some
            /\ check_earnings_proximity(in.earnings_days).forced_signal_override
      [] branch = "RR_BELOW_1" ->
            /\ in.risk_reward_ratio < 100
            /\ ~check_entry_block(in.risk_reward_ratio).some
      [] branch = "VOLUME_BELOW_0_5" ->
            /\ in.volume_ratio < 50
            /\ ~VolumeDivergence(in).some

\* what each early return returns
BranchResult(branch, in) ==
    LET sell_trigger == check_sell_trigger(in.rsi_value, in.stoch_rsi_k,
                                           in.volume_ratio)
        financial_block == check_financial_health_block(in.fundamentals)
        earnings_alert == check_earnings_proximity(in.earnings_days)
    IN  CASE branch = "MASSIVE_DROP" ->
                Override("WAIT", 10, branch, <<"MASSIVE_DROP_WARNING">>,
                         <<"MASSIVE_DROP_ACTION">>, <<>>)
          [] branch = "SELL_TRIGGER" ->
                Override(sell_trigger.forced_signal,
                         sell_trigger.forced_confidence, branch,
                         <<"SELL_TRIGGER_MESSAGE">>, <<"SELL_TRIGGER_ACTION">>,
                         <<sell_trigger.type>>)
          [] branch = "FINANCIAL_HEALTH_BLOCK" ->
                Override(financial_block.forced_signal, 15, branch,
                         <<"FINANCIAL_BLOCK_MESSAGE">>,
                         <<"FINANCIAL_BLOCK_ACTION">>, <<financial_block.type>>)
          [] branch = "EARNINGS_PROXIMITY" ->
                Override(earnings_alert.forced_signal,
                         earnings_alert.forced_confidence, branch,
                         <<"EARNINGS_MESSAGE">>, <<"EARNINGS_ACTION">>,
                         <<earnings_alert.type>>)
          [] branch = "RR_BELOW_1" ->
                Override("NEUTRAL", 20, branch, <<"UNFAVORABLE_SETUP">>,
                         CriticalBlocks(in) \o <<"RR_BELOW_1">>, <<>>)
          [] branch = "VOLUME_BELOW_0_5" ->
                Override("NEUTRAL", 20, branch, <<"NO_VOLUME_CONFIRMATION">>,
                         CriticalBlocks(in) \o <<"VOLUME_CRITICAL">>, <<>>)

\* a plausible slip: the SELL trigger is tested before the massive drop
CascadeOrder_sell_first ==
    <<"SELL_TRIGGER", "MASSIVE_DROP", "FINANCIAL_HEALTH_BLOCK",
      "EARNINGS_PROXIMITY", "RR_BELOW_1", "VOLUME_BELOW_0_5">>

\* a plausible slip: earnings proximity is tested before the financial block
CascadeOrder_earnings_first ==
    <<"MASSIVE_DROP", "SELL_TRIGGER", "EARNINGS_PROXIMITY",
      "FINANCIAL_HEALTH_BLOCK", "RR_BELOW_1", "VOLUME_BELOW_0_5">>

\* the order in which generate_signal tests its early returns
CascadeOrder ==
    <<"MASSIVE_DROP", "SELL_TRIGGER", "FINANCIAL_HEALTH_BLOCK",
      "EARNINGS_PROXIMITY", "RR_BELOW_1", "VOLUME_BELOW_0_5">>

\* the first early return whose condition holds, else the scoring pass
generate_signal(in) ==
    LET hits == {i \in DOMAIN CascadeOrder : Fires(CascadeOrder[i], in)}
        first == CHOOSE i \in hits : \A j \in hits : i <= j
    IN  IF hits = {} THEN ScoringPass(in)
        ELSE BranchResult(CascadeOrder[first], in)

\* Optional[int]
None == [some |-> FALSE, v |-> 0]
Some(x) == [some |-> TRUE, v |-> x]

\* fundamentals of get_fundamentals: None, or numbers (0 when missing)
NoFundamentals ==
    [some |-> FALSE, free_cash_flow |-> 0, debt_to_equity |-> 0,
     non_numeric |-> {}]
Fundamentals(fcf, dte) ==
    [some |-> TRUE, free_cash_flow |-> fcf, debt_to_equity |-> dte,
     non_numeric |-> {}]

\* fundamentals handed to the financial-health module on its own: also with
\* fields that are not numbers
ModuleFundamentals ==
    {NoFundamentals}
    \cup [some : {TRUE},
          free_cash_flow : {0 - 1000000001, 0 - 1000000000, 0},
          debt_to_equity : {0, 200 * 100, 200 * 100 + 1},
          non_numeric : SUBSET {"free_cash_flow", "debt_to_equity"}]

\* massive_drop_detected: None, an empty dict, or the alert of
\* detect_massive_drop
MassiveDropInputs ==
    {[k |-> "none", drop_percent |-> 0],
     [k |-> "empty", drop_percent |-> 0],
     [k |-> "alert", drop_percent |-> 0 - 1000]}

\* inputs the override cascade reads
CascadeInputs ==
    [rsi_value : {70 * 100, 70 * 100 + 1},
     stoch_rsi_k : {85 * 100, 90 * 100, 90 * 100 + 1},
     volume_ratio : {49, 50, 79, 80},
     risk_reward_ratio : {99, 100},
     earnings_days : {None, Some(0), Some(7), Some(MaxEarningsDays)},
     fundamentals :
        {NoFundamentals}
        \cup {Fundamentals(fcf, dte) :
                fcf \in {0 - 1000000001, 0 - 1000000000, 0},
                dte \in {0, 200 * 100, 200 * 100 + 1, 300 * 100 + 1}},
     price_change_percent : {0 - 2000, 0 - 800, 0, 250},
     massive_drop_detected : MassiveDropInputs]

\* inputs only the scoring pass reads
ScoringInputs ==
    [adx_regime : {"TRENDING", "RANGING", "NEUTRAL"},
     trend_direction : {"BULLISH", "BEARISH"},
     rsi_signal : {"supracumparat", "supravandut", "neutru"},
     stoch_rsi_signal : {"supravandut", "neutru"},
     macd_cross : {"bullish", "bearish"},
     vix_high_volatility : BOOLEAN,
     levels : {<<100 * Cent, 90 * Cent, 110 * Cent>>,
               <<100 * Cent, 99 * Cent, 101 * Cent>>}]

\* cascade inputs of calls that reach the scoring pass with varied penalties
CascadeProfiles ==
    [rsi_value : {25 * 100, 70 * 100},
     stoch_rsi_k : {15 * 100, 85 * 100, 85 * 100 + 1},
     volume_ratio : {50, 80},
     risk_reward_ratio : {99, 100},
     earnings_days : {None},
     fundamentals :
        {NoFundamentals, Fundamentals(0, 301), Fundamentals(0, 1120),
         Fundamentals(0, 300 * 100 + 1), Fundamentals(1, 1120 * 100)},
     price_change_percent : {0 - 2000, 0 - 1000, 0 - 890, 0 - 800, 0},
     massive_drop_detected : {[k |-> "none", drop_percent |-> 0]}]

\* the most bullish, the most bearish and a middling scoring input
ScoringProfiles ==
    {[adx_regime |-> "TRENDING", trend_direction |-> "BULLISH",
      rsi_signal |-> "supravandut", stoch_rsi_signal |-> "supravandut",
      macd_cross |-> "bullish", vix_high_volatility |-> FALSE,
      levels |-> <<100 * Cent, 90 * Cent, 110 * Cent>>],
     [adx_regime |-> "RANGING", trend_direction |-> "BEARISH",
      rsi_signal |-> "supracumparat", stoch_rsi_signal |-> "neutru",
      macd_cross |-> "bearish", vix_high_volatility |-> TRUE,
      levels |-> <<100 * Cent, 99 * Cent, 101 * Cent>>],
     [adx_regime |-> "NEUTRAL", trend_direction |-> "BULLISH",
      rsi_signal |-> "neutru", stoch_rsi_signal |-> "neutru",
      macd_cross |-> "bearish", vix_high_volatility |-> FALSE,
      levels |-> <<100 * Cent, 90 * Cent, 110 * Cent>>]}

\* the arguments of one generate_signal call
SignalArgs(c, s) ==
    [rsi_value |-> c.rsi_value, rsi_signal |-> s.rsi_signal,
     stoch_rsi_k |-> c.stoch_rsi_k, stoch_rsi_signal |-> s.stoch_rsi_signal,
     volume_ratio |-> c.volume_ratio,
     adx_regime |-> s.adx_regime, trend_direction |-> s.trend_direction,
     macd_cross |-> s.macd_cross,
     price_current |-> s.levels[1], support |-> s.levels[2],
     resistance |-> s.levels[3],
     vix_high_volatility |-> s.vix_high_volatility,
     risk_reward_ratio |-> c.risk_reward_ratio,
     earnings_days |-> c.earnings_days,
     fundamentals |-> c.fundamentals,
     massive_drop_detected |-> c.massive_drop_detected,
     price_change_percent |-> c.price_change_percent,
     price_change_ulps |-> 0]

Do_generate_signal(in) ==
    /\ args' = in
    /\ result' = generate_signal(in)
    /\ op' = "generate_signal"
    /\ pc' = "done"
    /\ UNCHANGED <<instances, paper_trades>>

Call_generate_signal ==
    /\ pc = "idle"
    /\ \/ \E c \in CascadeInputs, s \in ScoringProfiles :
            Do_generate_signal(SignalArgs(c, s))
       \/ \E c \in CascadeProfiles, s \in ScoringInputs :
            Do_generate_signal(SignalArgs(c, s))

\* cascade inputs of calls on a day whose price change is the double next
\* below -8.0, which (close - prev) / prev * 100 gives for 7.25 -> 6.67
UlpProfiles ==
    [rsi_value : {25 * 100},
     stoch_rsi_k : {15 * 100, 85 * 100 + 1},
     volume_ratio : {50, 80},
     risk_reward_ratio : {99, 100},
     earnings_days : {None},
     fundamentals :
        {NoFundamentals, Fundamentals(0, 301), Fundamentals(0, 300 * 100 + 1)},
     price_change_percent : {0 - 800},
     massive_drop_detected : {[k |-> "none", drop_percent |-> 0]}]

\* generate_signal with price_change_percent = -8.000000000000002
Call_generate_signal_ulp ==
    /\ pc = "idle"
    /\ \E c \in UlpProfiles, s \in ScoringInputs :
         LET in == [SignalArgs(c, s) EXCEPT !.price_change_ulps = 0 - 1]
         IN  /\ args' = in
             /\ result' = generate_signal(in)
    /\ op' = "generate_signal_ulp"
    /\ pc' = "done"
    /\ UNCHANGED <<instances, paper_trades>>

\* raw debt/equity values v (whole numbers) given once as v and once as v/100
DteForms == {1000, 1001, 1120, 10000, 10001}

\* generate_signal on one snapshot with debt/equity in percentage form (v)
\* and again with the same leverage in ratio form (v / 100)
Call_generate_signal_forms ==
    /\ pc = "idle"
    /\ \E c \in CascadeProfiles, s \in ScoringProfiles, v \in DteForms :
         LET percent_form ==
                 SignalArgs([c EXCEPT !.fundamentals = Fundamentals(0, v * 100)], s)
             ratio_form ==
                 SignalArgs([c EXCEPT !.fundamentals = Fundamentals(0, v)], s)
         IN  /\ args' = [v |-> v, percent_form |-> percent_form,
                         ratio_form |-> ratio_form]
             /\ result' = [percent_form |-> generate_signal(percent_form),
                           ratio_form |-> generate_signal(ratio_form)]
    /\ op' = "generate_signal_forms"
    /\ pc' = "done"
    /\ UNCHANGED <<instances, paper_trades>>

Call_check_financial_health_block ==
    /\ pc = "idle"
    /\ \E f \in ModuleFundamentals :
         /\ args' = [fundamentals |-> f]
         /\ result' = check_financial_health_block(f)
    /\ op' = "check_financial_health_block"
    /\ pc' = "done"
    /\ UNCHANGED <<instances, paper_trades>>

NextSignal ==
    \/ Call_generate_signal
    \/ Call_generate_signal_ulp
    \/ Call_generate_signal_forms
    \/ Call_check_financial_health_block
    \/ Return

\* the signal decision engine
SpecSignal == Init /\ [][NextSignal]_vars

NextRisk ==
    \/ Call_validate_price
    \/ Call_validate_stop_loss
    \/ Revalidate_stop_loss
    \/ Call_validate_take_profit
    \/ Call_cap_risk_reward_ratio
    \/ Call_calculate_risk_reward
    \/ Call_detect_massive_drop
    \/ Return

\* price validator and risk calculator
SpecRisk == Init /\ [][NextRisk]_vars

\* ---------------------------------------------------------- entry optimizer
\* one dollar, in price units
Dollar == 100 * Cent

\* the three levels in the order the code appends them, with the share of
\* the current price (in percent) each has to lie below
EntryLevels(ema_20, ema_50, support) ==
    <<[level |-> "EMA 20", price |-> ema_20, below |-> 98],
      [level |-> "EMA 50", price |-> ema_50, below |-> 95],
      [level |-> "Support Pivot", price |-> support, below |-> 97]>>

\* the subsequence of seq whose elements satisfy Keep
RECURSIVE SelectEntries(_, _, _)
SelectEntries(seq, current_price, strict) ==
    IF seq = <<>> THEN <<>>
    ELSE LET e == Head(seq)
             keep == IF strict
                     THEN e.price * 100 < current_price * e.below
                     ELSE e.price * 100 <= current_price * e.below
         IN  (IF keep THEN <<e>> ELSE <<>>)
             \o SelectEntries(Tail(seq), current_price, strict)

\* list.sort(key = distance_percent): ascending distance from the current
\* price, equal distances keeping their order
SortByDistance(seq) ==
    LET before(i, j) == \/ seq[i].price > seq[j].price
                        \/ (seq[i].price = seq[j].price /\ i < j)
        place(i) == 1 + Cardinality({j \in DOMAIN seq : before(j, i)})
    IN  [k \in DOMAIN seq |-> seq[CHOOSE i \in DOMAIN seq : place(i) = k]]

\* ideal_sl of a candidate inside the search loop
LoopStopLoss(price, atr) ==
    IF price - (atr * 3) \div 2 <= Cent
    THEN (price * 97) \div 100
    ELSE price - (atr * 3) \div 2

\* ideal_rr >= target_rr for a candidate, with risk > 0
Qualifies(price, resistance, atr, target_rr) ==
    LET risk == price - LoopStopLoss(price, atr)
        reward == resistance - price
    IN  risk > 0 /\ reward * 100 >= target_rr * risk

\* current_rr and target_rr in hundredths
optimize_entry(current_price, ema_20, ema_50, support, resistance, atr, current_rr, target_rr) ==
    LET potential_entries ==
            SortByDistance(SelectEntries(EntryLevels(ema_20, ema_50, support),
                                         current_price, TRUE))
        hits == {i \in DOMAIN potential_entries :
                    Qualifies(potential_entries[i].price, resistance, atr,
                              target_rr)}
        best_entry == potential_entries[CHOOSE i \in hits :
                                           \A j \in hits : i <= j]
        closest == potential_entries[1]
        closest_risk == (atr * 3) \div 2
    IN  IF current_rr >= target_rr
        THEN [optimized |-> FALSE, success |-> FALSE, entry_level |-> "none",
              ideal_entry |-> current_price,
              ideal_sl |-> current_price - (atr * 3) \div 2,
              ideal_tp |-> resistance, ideal_rr |-> current_rr]
        ELSE IF potential_entries = <<>>
        THEN [optimized |-> FALSE, success |-> FALSE, entry_level |-> "none",
              ideal_entry |-> current_price,
              ideal_sl |-> support - atr \div 2,
              ideal_tp |-> resistance, ideal_rr |-> current_rr]
        ELSE IF hits = {}
        THEN [optimized |-> TRUE, success |-> FALSE,
              entry_level |-> closest.level,
              ideal_entry |-> Round2(closest.price, 0),
              ideal_sl |-> Round2(closest.price - closest_risk, 0),
              ideal_tp |-> Round2(resistance, 0),
              ideal_rr |-> IF closest_risk > 0
                           THEN RoundDiv((resistance - closest.price) * 100,
                                         closest_risk, 0)
                           ELSE 0]
        ELSE [optimized |-> TRUE, success |-> TRUE,
              entry_level |-> best_entry.level,
              ideal_entry |-> Round2(best_entry.price, 0),
              ideal_sl |-> Round2(LoopStopLoss(best_entry.price, atr), 0),
              ideal_tp |-> Round2(resistance, 0),
              ideal_rr |->
                 RoundDiv((resistance - best_entry.price) * 100,
                          best_entry.price - LoopStopLoss(best_entry.price, atr),
                          0)]

\* EntryOptimizer(target_rr=2.0)
target_rr == 200

\* levels around a current price of 100 on both sides of the 2%, 3% and 5%
\* marks, resistances below, at and above the price, and R/R around the target
EntryInputs ==
    [current_price : {100 * Dollar},
     ema_20 : {p * Dollar : p \in {90, 95, 98, 99, 105}} \cup {9799 * Cent},
     ema_50 : {p * Dollar : p \in {85, 95, 96}} \cup {9499 * Cent},
     support : {p * Dollar : p \in {90, 97, 98}} \cup {9699 * Cent},
     resistance : {p * Dollar : p \in {96, 100, 110}},
     atr : {a * Dollar : a \in {0, 2, 5, 70}},
     current_rr : {100, 199, 200, 250}]

Call_optimize_entry ==
    /\ pc = "idle"
    /\ \E in \in EntryInputs :
         /\ args' = in
         /\ result' = optimize_entry(in.current_price, in.ema_20, in.ema_50,
                                     in.support, in.resistance, in.atr,
                                     in.current_rr, target_rr)
    /\ op' = "optimize_entry"
    /\ pc' = "done"
    /\ UNCHANGED <<instances, paper_trades>>

NextEntry ==
    \/ Call_optimize_entry
    \/ Return

\* the entry optimizer
SpecEntry == Init /\ [][NextEntry]_vars

\* ------------------------------------------------------ indicator calculator
\* Series.rolling(window = period).max() / .min() at position i: NaN until
\* the window is full and when the window holds a NaN
RollingMax(values, i, period) ==
    LET window == (i - period + 1)..i
    IN  IF i < period \/ \E j \in window : values[j].k = "nan" THEN NaN
        ELSE Num(CHOOSE m \in {values[j].v : j \in window} :
                    \A j \in window : values[j].v <= m)

RollingMin(values, i, period) ==
    LET window == (i - period + 1)..i
    IN  IF i < period \/ \E j \in window : values[j].k = "nan" THEN NaN
        ELSE Num(CHOOSE m \in {values[j].v : j \in window} :
                    \A j \in window : values[j].v >= m)

\* a plausible slip: the lower channel is reported as the rolling minimum
\* gives it, with NaN reported as nan
calculate_donchian_channel_raw(df, period, eps) ==
    LET n == Len(df)
        high == [i \in 1..n |-> df[i].high]
        low == [i \in 1..n |-> df[i].low]
        high_channel == [i \in 1..n |->
                            validate_price(RollingMax(high, i, period), MinPrice)]
        low_channel == [i \in 1..n |-> RollingMin(low, i, period)]
        entry(i) == [upper |-> Round2(high_channel[i].v, 0),
                     lower |-> Round2(low_channel[i].v, 0),
                     middle |-> Round2((high_channel[i].v + low_channel[i].v)
                                          \div 2, eps)]
        shown == {i \in 1..n : low_channel[i].k # "nan"}
    IN  IF n = 0
        THEN [raised |-> TRUE, upper |-> 0, lower |-> Num(0), middle |-> 0,
              channel_data |-> <<>>]
        ELSE [raised |-> FALSE,
              upper |-> entry(n).upper,
              lower |-> IF low_channel[n].k = "nan" THEN NaN
                        ELSE Num(entry(n).lower),
              middle |-> entry(n).middle,
              channel_data |-> [i \in 1..n |->
                                   IF i \in shown THEN entry(i).lower
                                   ELSE MinPrice]]

\* df: the bars, oldest first, each with high and low (a number or NaN);
\* upper, lower and middle of the last bar and the lower value of every
\* channel_data entry; raised when the series is empty (iloc[-1]); eps: the
\* error sign of the computed middle
calculate_donchian_channel(df, period, eps) ==
    LET n == Len(df)
        high == [i \in 1..n |-> df[i].high]
        low == [i \in 1..n |-> df[i].low]
        high_channel == [i \in 1..n |->
                            validate_price(RollingMax(high, i, period), MinPrice)]
        low_channel == [i \in 1..n |->
                           validate_price(RollingMin(low, i, period), MinPrice)]
        entry(i) == [upper |-> Round2(high_channel[i].v, 0),
                     lower |-> Round2(low_channel[i].v, 0),
                     middle |-> Round2((high_channel[i].v + low_channel[i].v)
                                          \div 2, eps)]
    IN  IF n = 0
        THEN [raised |-> TRUE, upper |-> 0, lower |-> Num(0), middle |-> 0,
              channel_data |-> <<>>]
        ELSE [raised |-> FALSE,
              upper |-> entry(n).upper,
              lower |-> Num(entry(n).lower),
              middle |-> entry(n).middle,
              \* every position passes the notna test after validation
              channel_data |-> [i \in 1..n |-> entry(i).lower]]

\* bars with a negative, zero, minimal and ordinary low, and a bar of NaN
BarInputs ==
    {[high |-> NaN, low |-> NaN]}
    \cup {[high |-> Num(l + h), low |-> Num(l)] :
            l \in {0 - Cent, 0, Cent, 5 * Cent}, h \in {0, 2 * Cent}}

\* bar series of 0 .. MaxBars bars
RECURSIVE BarSeries(_)
BarSeries(n) ==
    IF n = 0 THEN {<<>>}
    ELSE BarSeries(n - 1)
         \cup {Append(series, b) : series \in {x \in BarSeries(n - 1) : Len(x) = n - 1},
                                   b \in BarInputs}

\* rolling windows shorter than the default 20, through the period argument
PeriodInputs == {2, 3}

Call_calculate_donchian_channel ==
    /\ pc = "idle"
    /\ \E df \in BarSeries(MaxBars), period \in PeriodInputs,
          eps \in FloatErrors :
         /\ args' = [df |-> df, period |-> period]
         /\ result' = calculate_donchian_channel(df, period, eps)
    /\ op' = "calculate_donchian_channel"
    /\ pc' = "done"
    /\ UNCHANGED <<instances, paper_trades>>

\* calculate_all_indicators on a series of n bars: no length test of its
\* own; iloc[-1] raises IndexError on an empty series, any other series
\* gives a snapshot (ema_200 only from 200 bars on)
calculate_all_indicators(n) ==
    IF n = 0
    THEN [k |-> "IndexError", bars |-> n, ema_200 |-> FALSE]
    ELSE [k |-> "snapshot", bars |-> n, ema_200 |-> n >= 200]

\* no snapshot was computed
NoIndicators == [k |-> "none", bars |-> 0, ema_200 |-> FALSE]

\* a plausible slip: the service lets a series of 19 bars through
analyze_symbol_19(data) ==
    IF ~data.some \/ data.v < 19
    THEN [status_code |-> 404, detail |-> "INSUFFICIENT_DATA",
          indicators |-> NoIndicators]
    ELSE [status_code |-> 200, detail |-> "none",
          indicators |-> calculate_all_indicators(data.v)]

\* analyze_symbol, steps 3 and 4: data is None or the fetched series of
\* data.v bars; HTTPException 404 for no or insufficient data, else the
\* snapshot the later steps work on
analyze_symbol(data) ==
    IF ~data.some \/ data.v < 20
    THEN [status_code |-> 404, detail |-> "INSUFFICIENT_DATA",
          indicators |-> NoIndicators]
    ELSE [status_code |-> 200, detail |-> "none",
          indicators |-> calculate_all_indicators(data.v)]

\* what get_ohlc_data hands back: None, or a series of so many bars
DataInputs == {None} \cup {Some(n) : n \in {0, 1, 19, 20, 21, 199, 200}}

Call_analyze_symbol ==
    /\ pc = "idle"
    /\ \E data \in DataInputs :
         /\ args' = [data |-> data]
         /\ result' = analyze_symbol(data)
    /\ op' = "analyze_symbol"
    /\ pc' = "done"
    /\ UNCHANGED <<instances, paper_trades>>

NextIndicators ==
    \/ Call_calculate_donchian_channel
    \/ Call_analyze_symbol
    \/ Return

\* the indicator calculator as the service runs it
SpecIndicators == Init /\ [][NextIndicators]_vars

\* ------------------------------------------------------ concurrent analyses
\* the instruments analysed at the same time
Instruments == {"AAA", "BBB"}

\* snapshots that between them take every way out of generate_signal
AnalysisInputs ==
    {SignalArgs(c, s) :
        c \in [rsi_value : {70 * 100, 70 * 100 + 1},
               stoch_rsi_k : {90 * 100 + 1},
               volume_ratio : {49, 80},
               risk_reward_ratio : {100},
               earnings_days : {None, Some(7)},
               fundamentals :
                  {NoFundamentals, Fundamentals(0 - 1000000001, 200 * 100 + 1)},
               price_change_percent : {0},
               massive_drop_detected :
                  {[k |-> "none", drop_percent |-> 0],
                   [k |-> "alert", drop_percent |-> 0 - 1000]}],
        s \in {[adx_regime |-> "TRENDING", trend_direction |-> "BULLISH",
                rsi_signal |-> "supravandut", stoch_rsi_signal |-> "supravandut",
                macd_cross |-> "bullish", vix_high_volatility |-> FALSE,
                levels |-> <<100 * Cent, 90 * Cent, 110 * Cent>>]}}

\* prices handed to the validator while other analyses run
AnalysisPrices == {NoneVal, NaN, Num(0), Num(Cent \div 2), Num(Cent), Num(5 * Cent)}

\* every instrument idle, the instances as created on import
InitAnalyses ==
    /\ pc = [i \in Instruments |-> "idle"]
    /\ op = [i \in Instruments |-> "none"]
    /\ args = [i \in Instruments |-> NoArgs]
    /\ result = [i \in Instruments |-> NoArgs]
    /\ InitInstances
    /\ paper_trades = NoTrades

\* generate_signal is entered for instrument i: the penalties are local, the
\* first early return is tested next
Start_generate_signal(i) ==
    /\ pc[i] = "idle"
    /\ \E in \in AnalysisInputs : args' = [args EXCEPT ![i] = in]
    /\ op' = [op EXCEPT ![i] = "generate_signal"]
    /\ pc' = [pc EXCEPT ![i] = CascadeOrder[1]]
    /\ UNCHANGED <<result, instances, paper_trades>>

\* a plausible slip: the SELL trigger check keeps the highest RSI it has seen
\* as its threshold
Step_generate_signal_adapts(i) ==
    /\ op[i] = "generate_signal"
    /\ \E k \in DOMAIN CascadeOrder :
         /\ pc[i] = CascadeOrder[k]
         /\ IF Fires(CascadeOrder[k], args[i])
            THEN /\ result' = [result EXCEPT
                                 ![i] = BranchResult(CascadeOrder[k], args[i])]
                 /\ pc' = [pc EXCEPT ![i] = "done"]
            ELSE /\ pc' = [pc EXCEPT ![i] = IF k < Len(CascadeOrder)
                                            THEN CascadeOrder[k + 1]
                                            ELSE "SCORING"]
                 /\ UNCHANGED result
         /\ overbought_protector' =
               IF CascadeOrder[k] = "SELL_TRIGGER"
               THEN [overbought_protector EXCEPT
                       !.rsi_threshold = Max(@, args[i].rsi_value)]
               ELSE overbought_protector
    /\ UNCHANGED <<op, args, high_risk_optimizer, paper_trades>>

\* the running call of instrument i tests its next early return, reading the
\* thresholds of the shared instances, and returns or moves on
Step_generate_signal(i) ==
    /\ op[i] = "generate_signal"
    /\ \E k \in DOMAIN CascadeOrder :
         /\ pc[i] = CascadeOrder[k]
         /\ IF Fires(CascadeOrder[k], args[i])
            THEN /\ result' = [result EXCEPT
                                 ![i] = BranchResult(CascadeOrder[k], args[i])]
                 /\ pc' = [pc EXCEPT ![i] = "done"]
            ELSE /\ pc' = [pc EXCEPT ![i] = IF k < Len(CascadeOrder)
                                            THEN CascadeOrder[k + 1]
                                            ELSE "SCORING"]
                 /\ UNCHANGED result
    /\ UNCHANGED <<op, args, instances, paper_trades>>

\* no early return was taken: the scoring pass and the final mapping
Score_generate_signal(i) ==
    /\ op[i] = "generate_signal"
    /\ pc[i] = "SCORING"
    /\ result' = [result EXCEPT ![i] = ScoringPass(args[i])]
    /\ pc' = [pc EXCEPT ![i] = "done"]
    /\ UNCHANGED <<op, args, instances, paper_trades>>

\* PriceValidator.validate_price (a static method) for instrument i
Validate_price(i) ==
    /\ pc[i] = "idle"
    /\ \E price \in AnalysisPrices :
         /\ args' = [args EXCEPT ![i] = [price |-> price, min_price |-> MinPrice]]
         /\ result' = [result EXCEPT ![i] = validate_price(price, MinPrice)]
    /\ op' = [op EXCEPT ![i] = "validate_price"]
    /\ pc' = [pc EXCEPT ![i] = "done"]
    /\ UNCHANGED <<instances, paper_trades>>

\* the call of instrument i has returned
Return_analysis(i) ==
    /\ pc[i] = "done"
    /\ pc' = [pc EXCEPT ![i] = "idle"]
    /\ op' = [op EXCEPT ![i] = "none"]
    /\ args' = [args EXCEPT ![i] = NoArgs]
    /\ result' = [result EXCEPT ![i] = NoArgs]
    /\ UNCHANGED <<instances, paper_trades>>

NextAnalyses ==
    \/ \E i \in Instruments : Start_generate_signal(i)
    \/ \E i \in Instruments : Step_generate_signal(i)
    \/ \E i \in Instruments : Score_generate_signal(i)
    \/ \E i \in Instruments : Validate_price(i)
    \/ \E i \in Instruments : Return_analysis(i)

\* analyses of several instruments, interleaved at every check
SpecAnalyses == InitAnalyses /\ [][NextAnalyses]_vars

\* ----------------------------------------------------------- paper trading
\* request handlers that may run PaperTradingService calls at the same time
Handlers == {1, 2}

\* ids uuid4 gives to created trades
TradeIds == {"t1", "t2"}

\* stop loss and take profit of created trades (entry at 100): around the
\* entry, and a degenerate pair every price at 100 satisfies both ways
TradeLevels ==
    {[stop_loss |-> 90, take_profit |-> 110],
     [stop_loss |-> 100, take_profit |-> 100]}

\* current prices handed to update_trade_price
TradePrices == {85, 100, 115}

\* every handler idle, no trade created yet
InitTrades ==
    /\ pc = [h \in Handlers |-> "idle"]
    /\ op = [h \in Handlers |-> "none"]
    /\ args = [h \in Handlers |-> NoArgs]
    /\ result = [h \in Handlers |-> NoArgs]
    /\ InitInstances
    /\ paper_trades = NoTrades

\* create_trade: the document is inserted as active, without an exit
Create_trade(h) ==
    /\ pc[h] = "idle"
    /\ \E id \in TradeIds \ DOMAIN paper_trades, levels \in TradeLevels :
         LET trade == [id |-> id, entry_price |-> 100,
                       stop_loss |-> levels.stop_loss,
                       take_profit |-> levels.take_profit,
                       current_price |-> 100, status |-> "active",
                       exit_price |-> None]
         IN  /\ paper_trades' = paper_trades @@ (id :> trade)
             /\ args' = [args EXCEPT ![h] = [entry_price |-> 100,
                                             stop_loss |-> levels.stop_loss,
                                             take_profit |-> levels.take_profit]]
             /\ result' = [result EXCEPT ![h] = Some(trade)]
    /\ op' = [op EXCEPT ![h] = "create_trade"]
    /\ pc' = [pc EXCEPT ![h] = "done"]
    /\ UNCHANGED instances

\* update_trade_price up to its second await: find_one, and None for a
\* missing or closed trade
Find_trade(h) ==
    /\ pc[h] = "idle"
    /\ \E trade_id \in TradeIds, current_price \in TradePrices :
         IF trade_id \in DOMAIN paper_trades
            /\ paper_trades[trade_id].status = "active"
         THEN /\ args' = [args EXCEPT ![h] =
                            [trade_id |-> trade_id,
                             current_price |-> current_price,
                             trade |-> paper_trades[trade_id]]]
              /\ pc' = [pc EXCEPT ![h] = "found"]
              /\ UNCHANGED result
         ELSE /\ args' = [args EXCEPT ![h] =
                            [trade_id |-> trade_id,
                             current_price |-> current_price]]
              /\ result' = [result EXCEPT ![h] = None]
              /\ pc' = [pc EXCEPT ![h] = "done"]
    /\ op' = [op EXCEPT ![h] = "update_trade_price"]
    /\ UNCHANGED <<instances, paper_trades>>

\* the status and exit price update_trade_price computes from the trade it
\* has read: take profit is tested first
ExitCheck(trade, current_price) ==
    IF current_price >= trade.take_profit
    THEN [status |-> "success", exit_price |-> Some(trade.take_profit)]
    ELSE IF current_price <= trade.stop_loss
    THEN [status |-> "failed", exit_price |-> Some(trade.stop_loss)]
    ELSE [status |-> "active", exit_price |-> None]

\* the rest of update_trade_price: update_one sets the fields computed from
\* the document read before the await
Update_trade(h) ==
    /\ pc[h] = "found"
    /\ LET exit == ExitCheck(args[h].trade, args[h].current_price)
       IN  /\ paper_trades' =
                [paper_trades EXCEPT ![args[h].trade_id] =
                    [@ EXCEPT !.current_price = args[h].current_price,
                              !.status = exit.status,
                              !.exit_price = exit.exit_price]]
           /\ result' = [result EXCEPT ![h] =
                           Some([args[h].trade EXCEPT
                                   !.current_price = args[h].current_price,
                                   !.status = exit.status])]
    /\ pc' = [pc EXCEPT ![h] = "done"]
    /\ UNCHANGED <<op, args, instances>>

\* the call of handler h has returned
Return_trade(h) ==
    /\ pc[h] = "done"
    /\ pc' = [pc EXCEPT ![h] = "idle"]
    /\ op' = [op EXCEPT ![h] = "none"]
    /\ args' = [args EXCEPT ![h] = NoArgs]
    /\ result' = [result EXCEPT ![h] = NoArgs]
    /\ UNCHANGED <<instances, paper_trades>>

NextTrades ==
    \/ \E h \in Handlers : Create_trade(h)
    \/ \E h \in Handlers : Find_trade(h)
    \/ \E h \in Handlers : Update_trade(h)
    \/ \E h \in Handlers : Return_trade(h)

\* paper trades updated by concurrent handlers
SpecTrades == InitTrades /\ [][NextTrades]_vars

Returned(o) == pc = "done" /\ op = o

\* ------------------------------------------------------------------ claims
\* C3 (as stated): every risk profile calculate_risk_reward returns has
\* stop_loss < entry_price and take_profit > entry_price in the rounded values
C3_ProfileBracketsEntry ==
    (Returned("calculate_risk_reward") /\ ~result.raised)
        => /\ result.stop_loss < result.entry_price
           /\ result.take_profit > result.entry_price

\* C5 (as stated): validate_stop_loss returns a positive value strictly below
\* current, for all sl, current and atr
C5_StopLossBelowCurrent ==
    Returned("validate_stop_loss")
        => (result > 0 /\ result < args.current_price)

\* C6 (as stated): validate_take_profit returns a value strictly above
\* current, for all tp, current and atr
C6_TakeProfitAboveCurrent ==
    Returned("validate_take_profit") => result > args.current_price

\* C7: validate_stop_loss is idempotent: validating again the stop loss it
\* returned, with the same current and atr, returns that same stop loss
C7_StopLossIdempotent ==
    (Returned("validate_stop_loss") /\ args.pass = 2)
        => result = args.stop_loss

\* C7 witness: a second validation of a stop loss the first one had replaced
C7_Witness ==
    /\ Returned("validate_stop_loss")
    /\ args.pass = 2
    /\ args.stop_loss # args.first
    /\ args.first * 100 >= args.current_price * 99

C9_ValidatePriceTotal ==
    Returned("validate_price")
        => /\ result.k = "num"
           /\ result.v >= args.min_price
           /\ (args.price.k \in {"none", "nan", "str"}
                 \/ (args.price.k = "num" /\ args.price.v <= 0))
                => result.v = args.min_price
           /\ (args.price.k = "num" /\ args.price.v > 0)
                => result.v = Max(args.min_price, args.price.v)

\* conditions of the claims, on the arguments of the call
SellTriggerHolds ==
    /\ args.rsi_value > 70 * 100
    /\ args.stoch_rsi_k > 90 * 100
    /\ args.volume_ratio < 50
FinancialBlockHolds ==
    /\ args.fundamentals.some
    /\ args.fundamentals.free_cash_flow < 0
    /\ args.fundamentals.debt_to_equity > 200 * 100
EarningsHolds == args.earnings_days.some /\ args.earnings_days.v <= 7
MassiveDropGiven == args.massive_drop_detected.k = "alert"
Decision(signal, confidence) ==
    result.signal = signal /\ result.confidence = confidence

\* C1: a generate_signal call given a non-empty massive_drop_detected returns
\* WAIT with confidence 10, whatever the other inputs are
C1_MassiveDropWins ==
    (Returned("generate_signal") /\ MassiveDropGiven)
        => (Decision("WAIT", 10) /\ result.override_reason = "MASSIVE_DROP")

\* C1 witness: a massive drop together with the SELL trigger, the financial
\* block and close earnings
C1_Witness ==
    /\ Returned("generate_signal")
    /\ MassiveDropGiven
    /\ SellTriggerHolds /\ FinancialBlockHolds /\ EarningsHolds
    /\ Decision("WAIT", 10)

\* C2: without a massive drop the overrides are tested in the order SELL
\* trigger, financial-health block, earnings proximity, standard R/R check,
\* standard volume check, and the first whose condition holds decides signal
\* and confidence
C2_CascadeOrder ==
    (Returned("generate_signal") /\ ~MassiveDropGiven)
        => LET rr_check == /\ args.risk_reward_ratio < 100
                           /\ ~check_entry_block(args.risk_reward_ratio).some
               volume_check == /\ args.volume_ratio < 50
                               /\ ~VolumeDivergence(args).some
           IN  /\ SellTriggerHolds => Decision("SELL", 85)
               /\ (~SellTriggerHolds /\ FinancialBlockHolds)
                    => /\ result.signal \in {"NEUTRAL", "LIQUIDATE"}
                       /\ result.confidence = 15
               /\ (~SellTriggerHolds /\ ~FinancialBlockHolds /\ EarningsHolds)
                    => Decision("WAIT", 20)
               /\ (/\ ~SellTriggerHolds /\ ~FinancialBlockHolds
                   /\ ~EarningsHolds /\ rr_check)
                    => (/\ Decision("NEUTRAL", 20)
                        /\ result.override_reason = "RR_BELOW_1")
               /\ (/\ ~SellTriggerHolds /\ ~FinancialBlockHolds
                   /\ ~EarningsHolds /\ ~rr_check /\ volume_check)
                    => (/\ Decision("NEUTRAL", 20)
                        /\ result.override_reason = "VOLUME_BELOW_0_5")

\* C2 witness: the financial block decides although earnings are close and
\* the volume ratio is below 0.5
C2_Witness ==
    /\ Returned("generate_signal")
    /\ ~MassiveDropGiven /\ ~SellTriggerHolds
    /\ FinancialBlockHolds /\ EarningsHolds /\ args.volume_ratio < 50
    /\ result.confidence = 15

C10_SellTriggerExactly ==
    (Returned("generate_signal") /\ ~MassiveDropGiven)
        => /\ SellTriggerHolds
                <=> (Decision("SELL", 85) /\ result.override_reason # "none")
           /\ SellTriggerHolds <=> result.override_reason = "SELL_TRIGGER"

\* C10 witness: all three conditions hold and the SELL trigger is taken
C10_Witness ==
    /\ Returned("generate_signal")
    /\ ~MassiveDropGiven
    /\ SellTriggerHolds
    /\ Decision("SELL", 85)

\* C11: without a massive drop and a SELL trigger, fundamentals with free
\* cash flow < 0 and debt/equity > 200 make generate_signal return confidence
\* 15 with LIQUIDATE when free cash flow < -1,000,000,000 and NEUTRAL
\* otherwise (exactly -1,000,000,000 included); the financial-health module
\* returns None when fundamentals are absent or a field is missing or not a
\* number
C11_FinancialBlock ==
    /\ (/\ Returned("generate_signal")
        /\ ~MassiveDropGiven /\ ~SellTriggerHolds /\ FinancialBlockHolds)
         => /\ result.confidence = 15
            /\ result.signal =
                 IF args.fundamentals.free_cash_flow < 0 - 1000000000
                 THEN "LIQUIDATE" ELSE "NEUTRAL"
    /\ Returned("check_financial_health_block")
         => LET f == args.fundamentals
            IN  (\/ ~f.some
                 \/ f.non_numeric # {}
                 \/ f.free_cash_flow = 0
                 \/ f.debt_to_equity = 0)
                  => ~result.some

\* C11 witness: a free cash flow of exactly -1,000,000,000 with debt/equity
\* above 200 forces NEUTRAL with confidence 15
C11_Witness ==
    /\ Returned("generate_signal")
    /\ ~MassiveDropGiven /\ ~SellTriggerHolds /\ FinancialBlockHolds
    /\ args.fundamentals.free_cash_flow = 0 - 1000000000
    /\ Decision("NEUTRAL", 15)

\* C12: when neither the massive drop, the SELL trigger nor the financial
\* block fires, generate_signal returns WAIT with confidence 20 through the
\* earnings override when earnings_days is a number <= 7 (0 included), and
\* does not take the earnings override when earnings_days is None or > 7
C12_EarningsProximity ==
    (/\ Returned("generate_signal")
     /\ ~MassiveDropGiven /\ ~SellTriggerHolds /\ ~FinancialBlockHolds)
        => /\ EarningsHolds
                => (/\ Decision("WAIT", 20)
                    /\ result.override_reason = "EARNINGS_PROXIMITY")
           /\ ~EarningsHolds
                => result.override_reason # "EARNINGS_PROXIMITY"

\* C12 witness: earnings in exactly 7 days force WAIT with confidence 20
C12_Witness ==
    /\ Returned("generate_signal")
    /\ ~MassiveDropGiven /\ ~SellTriggerHolds /\ ~FinancialBlockHolds
    /\ args.earnings_days = Some(7)
    /\ Decision("WAIT", 20)

InSeq(x, seq) == \E i \in DOMAIN seq : seq[i] = x

\* C13: for every raw debt/equity v with 1000 < v <= 10000, generate_signal
\* given v and generate_signal given v/100 both normalize to the ratio v/100
\* and both take the ratio > 10 penalty of 30 with its extreme-risk warning
C13_DteNormalization ==
    (/\ Returned("generate_signal_forms")
     /\ args.v > 1000 /\ args.v <= 10000)
        => /\ DteRatio(args.percent_form) = args.v * 100
           /\ DteRatio(args.ratio_form) = args.v * 100
           /\ DtePenalty(args.percent_form) = 30 * 100
           /\ DtePenalty(args.ratio_form) = 30 * 100
           /\ result.percent_form.override_reason = "none"
                => InSeq("DTE_EXTREME_RISK", result.percent_form.warnings)
           /\ result.ratio_form.override_reason = "none"
                => InSeq("DTE_EXTREME_RISK", result.ratio_form.warnings)

\* C13 witness: 1120 and 11.2 both reach the scoring pass with the
\* extreme-risk warning
C13_Witness ==
    /\ Returned("generate_signal_forms")
    /\ args.v = 1120
    /\ args.percent_form.fundamentals.debt_to_equity = 1120 * 100
    /\ args.ratio_form.fundamentals.debt_to_equity = 1120
    /\ InSeq("DTE_EXTREME_RISK", result.percent_form.warnings)
    /\ InSeq("DTE_EXTREME_RISK", result.ratio_form.warnings)

\* C14 (as stated): in the scoring pass the signal is a function of the
\* returned confidence and the regime: BUY iff confidence >= 70 and regime
\* TRENDING; otherwise SELL iff confidence <= 30; otherwise HOLD iff
\* confidence >= 50; otherwise WAIT
C14_SignalFromConfidence ==
    (Returned("generate_signal") /\ result.override_reason = "none")
        => result.signal =
             IF result.confidence >= 70 /\ args.adx_regime = "TRENDING"
             THEN "BUY"
             ELSE IF result.confidence <= 30 THEN "SELL"
             ELSE IF result.confidence >= 50 THEN "HOLD"
             ELSE "WAIT"

\* the scoring terms of C15, in hundredths
C15_Terms ==
      (IF args.adx_regime = "RANGING" THEN 0 - 1500 ELSE 0)
    + (IF args.trend_direction = "BULLISH" THEN 2000 ELSE 0 - 2000)
    + (IF args.rsi_signal = "supravandut" THEN 1500
       ELSE IF args.rsi_signal = "supracumparat" THEN 0 - 1500 ELSE 0)
    + (IF args.stoch_rsi_k > 8500 THEN 0 - 3000
       ELSE IF args.stoch_rsi_signal = "supravandut" THEN 1500 ELSE 0)
    + (IF args.macd_cross = "bullish" THEN 1000 ELSE 0 - 1000)
    + (IF args.vix_high_volatility THEN 0 - 1500 ELSE 0)

\* 50 + score of C15, in hundredths, clamped to 0..100
C15_Clamped ==
    Max(0, Min(100 * 100, 50 * 100 + ScoreBeforeScoring(args) + C15_Terms))

\* C15 (as stated): when no override fires, the returned confidence equals
\* clamp(50 + score, 0, 100), score being the penalties applied before the
\* scoring pass plus the listed scoring terms
C15_Original ==
    (Returned("generate_signal") /\ result.override_reason = "none")
        => result.confidence * 100 = C15_Clamped

\* C15 (amended): when no override fires, the returned confidence equals
\* clamp(50 + score, 0, 100) truncated to an integer, score being the
\* penalties applied before the scoring pass plus the listed scoring terms;
\* the same snapshot nearer to support or resistance returns the same
\* confidence
C15_ConfidenceFromScore ==
    (Returned("generate_signal") /\ result.override_reason = "none")
        => /\ result.confidence = C15_Clamped \div 100
           /\ result.confidence =
                generate_signal([args EXCEPT !.support = 99 * Cent,
                                             !.resistance = 101 * Cent]).confidence

\* C15 witness: a scoring pass whose 50 + score is not a whole number and
\* lies strictly inside 0..100
C15_Witness ==
    /\ Returned("generate_signal")
    /\ result.override_reason = "none"
    /\ C15_Clamped % 100 # 0
    /\ result.confidence = C15_Clamped \div 100
    /\ InSeq("AT_RESISTANCE", result.warnings)

\* the closest candidate reaching the target among the levels lying at least
\* (inclusive = TRUE) or more than (inclusive = FALSE) 2%, 5% and 3% below
\* the current price; <<>> when there is none
ClosestQualifying(inclusive) ==
    LET candidates ==
            SortByDistance(SelectEntries(
                EntryLevels(args.ema_20, args.ema_50, args.support),
                args.current_price, ~inclusive))
        hits == {i \in DOMAIN candidates :
                    Qualifies(candidates[i].price, args.resistance, args.atr,
                              target_rr)}
    IN  IF hits = {} THEN <<>>
        ELSE <<candidates[CHOOSE i \in hits : \A j \in hits : i <= j]>>

\* C16 (as stated): when current_rr < target, optimize_entry returns as
\* ideal_entry the closest of the candidates (EMA20 at least 2% below the
\* current price, EMA50 at least 5% below, pivot support at least 3% below)
\* whose R/R reaches the target; current=100, ema20=95, support=90,
\* resistance=110, atr=2, current_rr=1.0 selects EMA 20
C16_ClosestQualifying ==
    (Returned("optimize_entry") /\ args.current_rr < target_rr)
        => /\ ClosestQualifying(TRUE) # <<>>
                => /\ result.optimized
                   /\ result.ideal_entry = ClosestQualifying(TRUE)[1].price
           /\ (/\ args.current_price = 100 * Dollar /\ args.ema_20 = 95 * Dollar
               /\ args.support = 90 * Dollar /\ args.resistance = 110 * Dollar
               /\ args.atr = 2 * Dollar /\ args.current_rr = 100)
                => (result.entry_level = "EMA 20"
                    /\ result.ideal_entry = 95 * Dollar)

\* C17 (as stated): detect_massive_drop returns an alert exactly when the
\* series has at least 2 bars and the change from the second-to-last close
\* to the last close is strictly below -threshold percent; the alert's
\* drop_percent is that change, to two decimals (closes 100, 90 give -10.0);
\* a decline of exactly the threshold returns None
C17_MassiveDropExactly ==
    Returned("detect_massive_drop")
        => LET n == args.df.n
               last_close == args.df.close[1]
               current_close == args.df.close[2]
               strictly_below ==
                   /\ n >= 2 /\ last_close > 0
                   /\ (current_close - last_close) * 100
                        < 0 - args.threshold * last_close
           IN  /\ result.k = "alert" <=> strictly_below
               /\ result.k = "alert"
                    => Abs(result.drop_percent * last_close
                           - (current_close - last_close) * 100 * 100)
                         * 2 <= last_close
               /\ (n >= 2 /\ last_close = 10000 /\ current_close = 9000)
                    => (result.k = "alert" /\ result.drop_percent = 0 - 1000)

C20_Independent ==
    /\ [](/\ overbought_protector = OverboughtProtector
          /\ high_risk_optimizer = HighRiskOptimizer
          /\ \A i \in Instruments :
               pc[i] = "done" =>
                  result[i] = IF op[i] = "generate_signal"
                              THEN generate_signal(args[i])
                              ELSE validate_price(args[i].price,
                                                  args[i].min_price))
    /\ [][\A i \in Instruments :
            pc[i] # "idle" /\ pc'[i] # "idle" => args'[i] = args[i]]_vars

\* one instrument has its SELL override while the other, with another
\* snapshot that would not trigger it, is between two checks of its own call
C20_Witness ==
    /\ pc["AAA"] = "done" /\ op["AAA"] = "generate_signal"
    /\ result["AAA"].override_reason = "SELL_TRIGGER"
    /\ op["BBB"] = "generate_signal" /\ pc["BBB"] = "EARNINGS_PROXIMITY"
    /\ args["BBB"].rsi_value = 70 * 100
    /\ args["BBB"] # args["AAA"]

\* the debt/equity deduction C21 states, in hundredths: 30 for a normalized
\* ratio > 10, 20 for a ratio in (3, 10], plus a further 30 for a raw value
\* > 300
C21_Deduction ==
    LET dte == args.fundamentals.debt_to_equity
        \* the ratio times 10000
        ratio == IF dte > 10000 THEN dte ELSE dte * 100
    IN  IF ~args.fundamentals.some \/ dte = 0 THEN 0
        ELSE (IF ratio > 100000 THEN 3000 ELSE IF ratio > 30000 THEN 2000 ELSE 0)
             + (IF dte > 30000 THEN 3000 ELSE 0)

\* the other penalties applied before the scoring pass, in hundredths: the
\* daily drop and the volume divergence
C21_OtherPenalties ==
    (IF args.price_change_percent < 0 - 800
     THEN Min(Abs(args.price_change_percent) * 5, 6000) ELSE 0)
    + (IF InSeq("VOLUME_DIVERGENCE", result.advanced_alerts) THEN 3000 ELSE 0)

\* C21 (as stated): on a call that reaches the scoring pass the debt/equity
\* deduction is 30 for a ratio > 10, 20 for a ratio in (3, 10], plus one
\* further 30 for a raw value > 300, and nothing else: the returned
\* confidence is the truncated clamp of 50 - penalties - that deduction +
\* the scoring terms
C21_DteDeduction ==
    (Returned("generate_signal") /\ result.override_reason = "none")
        => result.confidence =
             Max(0, Min(10000, 5000 - C21_OtherPenalties - C21_Deduction
                                    + C15_Terms)) \div 100

\* the daily-drop penalty C22 states, in hundredths
C22_Penalty ==
    IF args.price_change_percent < 0 - 800
    THEN Min(Abs(args.price_change_percent) * 5, 6000)
    ELSE 0

\* 50 + score of C22, in hundredths, clamped to 0..100: the score of the same
\* call on a flat day less the stated penalty
C22_Clamped ==
    Max(0, Min(10000,
               5000 + ScoreBeforeScoring([args EXCEPT !.price_change_percent = 0])
                    + C15_Terms - C22_Penalty))

\* C22: a price change < -8 subtracts min(|change| * 5, 60) from the score
\* and adds a warning, a change >= -8 (exactly -8 included) subtracts
\* nothing and adds none; the penalty does not decide which way out of the
\* cascade the call takes, an override returns the signal and confidence it
\* returns on a flat day, and in the scoring pass the signal follows from
\* 50 + score as for any other call
C22_DailyDrop ==
    Returned("generate_signal") =>
       LET flat == generate_signal([args EXCEPT !.price_change_percent = 0])
       IN  /\ result.override_reason = flat.override_reason
           /\ result.override_reason # "none"
                => /\ result.signal = flat.signal
                   /\ result.confidence = flat.confidence
           /\ result.override_reason = "none"
                => /\ result.confidence = C22_Clamped \div 100
                   /\ InSeq("DAILY_DROP", result.warnings)
                         <=> args.price_change_percent < 0 - 800
                   /\ result.signal =
                        IF C22_Clamped >= 7000 /\ args.adx_regime = "TRENDING"
                        THEN "BUY"
                        ELSE IF C22_Clamped <= 3000 THEN "SELL"
                        ELSE IF C22_Clamped >= 5000 THEN "HOLD"
                        ELSE "WAIT"

\* C22 witness: a drop of 8.9% costs 44.5 points, is warned about, and the
\* call still returns HOLD from its score
C22_Witness ==
    /\ Returned("generate_signal")
    /\ args.price_change_percent = 0 - 890
    /\ result.override_reason = "none"
    /\ C22_Penalty = 4450
    /\ InSeq("DAILY_DROP", result.warnings)
    /\ result.signal = "HOLD"
    /\ result.confidence = 65

\* an override tested before the volume-divergence check has fired
C23_EarlierOverride ==
    result.override_reason \in
        {"MASSIVE_DROP", "SELL_TRIGGER", "FINANCIAL_HEALTH_BLOCK",
         "EARNINGS_PROXIMITY"}

\* C23 (as stated): with volume ratio < 0.8, a positive price change passed
\* by the caller and no earlier override, the call reaches the scoring pass
\* with a volume-divergence warning and alert
C23_VolumeDivergence ==
    (/\ Returned("generate_signal")
     /\ args.volume_ratio < 80
     /\ args.price_change_percent > 0
     /\ ~C23_EarlierOverride)
        => /\ result.override_reason = "none"
           /\ InSeq("VOLUME_DIVERGENCE", result.warnings)
           /\ InSeq("VOLUME_DIVERGENCE", result.advanced_alerts)

\* the volume-divergence module flags the call's volume ratio and the day's
\* price change passed by the caller
C25_DivergenceFlagged ==
    check_volume_divergence(args.volume_ratio, args.price_change_percent).some

\* C25 (as stated): with volume ratio < 0.5 and no earlier override, the call
\* returns NEUTRAL with confidence 20 when volume divergence was not
\* flagged, and goes on to the scoring pass when it was
C25_StandardVolumeCheck ==
    (/\ Returned("generate_signal")
     /\ args.volume_ratio < 50
     /\ ~C23_EarlierOverride)
        => IF C25_DivergenceFlagged
           THEN result.override_reason = "none"
           ELSE /\ result.signal = "NEUTRAL"
                /\ result.confidence = 20

\* the candidates of the call in the order they are tried
C26_Candidates ==
    SortByDistance(SelectEntries(EntryLevels(args.ema_20, args.ema_50,
                                             args.support),
                                 args.current_price, TRUE))

\* the stop loss C26 states for a candidate: 1.5 ATR below it, or 3% below
\* it when that is <= 0.01
C26_StopLoss(price) ==
    IF price - (args.atr * 3) \div 2 <= Cent
    THEN (price * 97) \div 100
    ELSE price - (args.atr * 3) \div 2

\* C26 (as stated): when current_rr < target and there are candidates none of
\* which reaches the target, optimize_entry returns the closest candidate,
\* with the stop loss of the search rule (1.5 ATR below the candidate, 3%
\* below it when that is <= 0.01) and the R/R computed from that stop loss
C26_ClosestFallback ==
    (/\ Returned("optimize_entry")
     /\ args.current_rr < target_rr
     /\ C26_Candidates # <<>>
     /\ \A i \in DOMAIN C26_Candidates :
           ~Qualifies(C26_Candidates[i].price, args.resistance, args.atr,
                      target_rr))
        => LET closest == C26_Candidates[1]
               risk == closest.price - C26_StopLoss(closest.price)
           IN  /\ result.optimized /\ ~result.success
               /\ result.entry_level = closest.level
               /\ result.ideal_entry = closest.price
               /\ result.ideal_sl = Round2(C26_StopLoss(closest.price), 0)
               /\ risk > 0 =>
                    result.ideal_rr =
                       RoundDiv((args.resistance - closest.price) * 100, risk, 0)

\* a generate_signal call has returned, whatever float its price change is
C27_Returned ==
    pc = "done" /\ op \in {"generate_signal", "generate_signal_ulp"}

\* the conditions C27 lists other than the price change
C27_Conditions ==
    /\ args.adx_regime = "TRENDING"
    /\ args.massive_drop_detected.k # "alert"
    /\ args.volume_ratio >= 50
    /\ ~args.earnings_days.some \/ args.earnings_days.v > 7
    /\ ~(/\ args.fundamentals.some
         /\ args.fundamentals.free_cash_flow < 0
         /\ args.fundamentals.debt_to_equity > 200 * 100)

\* C27 (as stated): generate_signal returns BUY only if the regime is
\* TRENDING, no massive drop was supplied, volume ratio >= 0.5, earnings_days
\* is None or > 7, the fundamentals do not have free cash flow < 0 with
\* debt/equity > 200, and price_change_percent >= -8
C27_BuyOnlyIf ==
    (C27_Returned /\ result.signal = "BUY")
        => /\ C27_Conditions
           /\ args.price_change_percent * 100 + args.price_change_ulps
                 >= 0 - 800 * 100

C29_ExtremeDebtSells ==
    (/\ C27_Returned
     /\ result.override_reason = "none"
     /\ args.fundamentals.some
     /\ args.fundamentals.debt_to_equity > 300 * 100
     /\ args.fundamentals.free_cash_flow >= 0)
        => /\ result.signal = "SELL"
           /\ result.confidence <= 10

\* C29 witness: debt/equity 300.01 with every scoring term at its best in a
\* trending market returns SELL with confidence 10
C29_Witness ==
    /\ Returned("generate_signal")
    /\ result.override_reason = "none"
    /\ args.fundamentals.debt_to_equity = 300 * 100 + 1
    /\ args.fundamentals.free_cash_flow >= 0
    /\ args.adx_regime = "TRENDING"
    /\ C15_Terms = 60 * 100
    /\ args.price_change_percent = 0
    /\ result.signal = "SELL"
    /\ result.confidence = 10

\* C30 (as stated): a stored status of success or failed is never set back
\* to active and the exit price stored with it never changes, whatever calls
\* of update_trade_price follow or are interleaved; and a call whose price
\* reaches the take profit closes the trade as success, also when the price
\* reaches the stop loss as well
C30_ClosedStaysClosed ==
    /\ [](\A h \in Handlers :
            (/\ pc[h] = "done" /\ op[h] = "update_trade_price"
             /\ result[h].some
             /\ args[h].current_price >= args[h].trade.take_profit)
                => result[h].v.status = "success")
    /\ [][\A id \in DOMAIN paper_trades :
            paper_trades[id].status \in {"success", "failed"}
               => /\ paper_trades'[id].status = paper_trades[id].status
                  /\ paper_trades'[id].exit_price = paper_trades[id].exit_price]_vars

====
